---- MODULE Spec2Model ----
(***************************************************************************)
(* Model of app.py: the Streamlit front end's submit step, Me.chat with    *)
(* its tool-resolution loop, Me.handle_tool_call, the two recording tools  *)
(* and push.  The chat-completion API and the push endpoint are the        *)
(* environment: their answers are drawn from small sets.                   *)
(***************************************************************************)
EXTENDS Integers, Sequences, FiniteSets, TLC

\* ---- bounds of the model ----
MaxTurns == 2      \* user utterances submitted in one session
MaxRounds == 2     \* tool-call rounds the model asks for in one chat call
MaxCalls == 2      \* tool-call requests the model makes in one chat call

\* ---- values ----
None == "<None>"
NoReply == "<no reply>"
Utterances == {"Do you know Zig?"}
CredValues == {None, "", "secret"}

VARIABLES
  PUSHOVER_TOKEN,   \* module global, app.py line 17
  PUSHOVER_USER,    \* module global, app.py line 18
  chat_history,     \* st.session_state.chat_history
  pc,               \* position of the script run: idle, awaiting, tools, responded, done, raised
  user_message,     \* the utterance of the current turn
  messages,         \* chat's local message list
  response,         \* the last response read from the API
  results,          \* handle_tool_call's local list
  idx,              \* position of handle_tool_call's for loop (1-based)
  reply,            \* value returned by chat in this turn
  err,              \* exception that ended the script run: none, api, tool, push
  rounds,           \* tool-call rounds completed in this chat call
  turns,            \* utterances submitted so far
  prior,            \* history: the session history before this utterance
  requestLog,       \* history: message lists sent to the API in this chat call
  responseLog,      \* history: responses read from the API in this chat call
  pushLog,          \* history: push invocations of this turn
  posts             \* history: requests.post calls of this turn

vars == <<PUSHOVER_TOKEN, PUSHOVER_USER, chat_history, pc, user_message, messages,
          response, results, idx, reply, err, rounds, turns, prior, requestLog,
          responseLog, pushLog, posts>>

\* ---- turns ----
Turn(role, content) ==
  [role |-> role, content |-> content, tool_call_id |-> None, tool_calls |-> <<>>]

system_prompt == "You are Ashish Kamat, representing him professionally. ..."

\* the message object of a response, as appended to messages (line 118)
MsgTurn(resp) ==
  [role |-> "assistant", content |-> resp.content, tool_call_id |-> None,
   tool_calls |-> resp.tool_calls]

\* ---- JSON ----
\* An arguments string is either not JSON, or an object given by its members
\* in order.  json.loads keeps the last value of a repeated key.
Arguments(members) == [valid |-> TRUE, members |-> members]
BadJson == [valid |-> FALSE, members |-> <<>>]

json_loads(a) ==
  LET keys == {a.members[i][1] : i \in DOMAIN a.members}
      last(k) == CHOOSE i \in DOMAIN a.members :
                   /\ a.members[i][1] = k
                   /\ \A j \in DOMAIN a.members : a.members[j][1] = k => j <= i
  IN [k \in keys |-> a.members[last(k)][2]]

\* results of a tool: a dict (set of key/value pairs) or Python's None
Dict(items) == [kind |-> "dict", items |-> items]
PyNone == [kind |-> "none", items |-> {}]
RecordedOk == Dict({<<"recorded", "ok">>})
EmptyDict == Dict({})

json_dumps(r) ==
  IF r.kind = "none" THEN "null"
  ELSE IF r.items = {} THEN "{}"
  ELSE "{\"recorded\": \"ok\"}"

\* ---- push and the tools ----
Truthy(v) == v \notin {None, ""}

Mut_push(text) ==
  IF Truthy(PUSHOVER_TOKEN) \/ Truthy(PUSHOVER_USER)
  THEN << [token |-> PUSHOVER_TOKEN, user |-> PUSHOVER_USER, message |-> text] >>
  ELSE << >>

\* push(text): the sequence of outbound requests it issues
push(text) ==
  IF Truthy(PUSHOVER_TOKEN) /\ Truthy(PUSHOVER_USER)
  THEN << [token |-> PUSHOVER_TOKEN, user |-> PUSHOVER_USER, message |-> text] >>
  ELSE << >>

RECURSIVE PushAll(_)
PushAll(texts) ==
  IF texts = <<>> THEN <<>> ELSE push(Head(texts)) \o PushAll(Tail(texts))

\* texts are kept as the parts of the f-string
Contains(text, part) == \E i \in DOMAIN text : text[i] = part

Arg(args, k, default) == IF k \in DOMAIN args THEN args[k] ELSE default

\* each tool gives the texts it passes to push and the value it returns
record_user_details(args) ==
  [pushed |-> << <<"Recording ", Arg(args, "name", "Name not provided"),
                   " with email ", args["email"],
                   " and notes ", Arg(args, "notes", "not provided")>> >>,
   result |-> RecordedOk]

Mut_record_unknown_question(args) ==
  [pushed |-> << >>, result |-> RecordedOk]

record_unknown_question(args) ==
  [pushed |-> << <<"Recording ", args["question"]>> >>, result |-> RecordedOk]

push_as_tool(args) ==
  [pushed |-> << <<args["text"]>> >>, result |-> PyNone]

FixedTools == {"record_user_details", "record_unknown_question"}
\* module globals that are functions, and ones that are truthy but not callable
CallableGlobals == FixedTools \cup {"push"}
OtherGlobals == {"tools", "record_user_details_json", "record_unknown_question_json"}

\* globals().get(tool_name)
GlobalsGet(tool_name) ==
  IF tool_name \in CallableGlobals \cup OtherGlobals THEN tool_name ELSE None

\* tool(**args) binds: required parameters present, no unexpected keyword
Binds(tool, args) ==
  CASE tool = "record_user_details" ->
         "email" \in DOMAIN args /\ DOMAIN args \subseteq {"email", "name", "notes"}
    [] tool = "record_unknown_question" -> DOMAIN args = {"question"}
    [] tool = "push" -> DOMAIN args = {"text"}
    [] OTHER -> FALSE

Invoke(tool, args) ==
  CASE tool = "record_user_details" -> record_user_details(args)
    [] tool = "record_unknown_question" -> record_unknown_question(args)
    [] OTHER -> push_as_tool(args)

Mut_ToolTurn(tool_call, result) ==
  [role |-> "tool", content |-> json_dumps(result),
   tool_call_id |-> tool_call.name, tool_calls |-> <<>>]

ToolTurn(tool_call, result) ==
  [role |-> "tool", content |-> json_dumps(result),
   tool_call_id |-> tool_call.id, tool_calls |-> <<>>]

\* ---- the environment's choices ----
ToolRequests ==
  { [name |-> "record_user_details",
     arguments |-> Arguments(<< <<"email", "a@b.com">> >>)],
    [name |-> "record_unknown_question",
     arguments |-> Arguments(<< <<"question", "Do you know Zig?">> >>)],
    [name |-> "record_unknown_question", arguments |-> Arguments(<< >>)],
    [name |-> "record_unknown_question", arguments |-> BadJson],
    [name |-> "push", arguments |-> Arguments(<< <<"text", "hello">> >>)],
    [name |-> "tools", arguments |-> Arguments(<< >>)],
    [name |-> "no_such_tool", arguments |-> Arguments(<< >>)] }

CallId(r, j) == "call_" \o ToString(r) \o "_" \o ToString(j)

ToolCall(r, j, req) ==
  [id |-> CallId(r, j), name |-> req.name, arguments |-> req.arguments]

\* the lists of at most m requests a response may carry, before the ids are given
RequestLists ==
  [m \in 0..MaxCalls |-> UNION { [1..n -> ToolRequests] : n \in 1..m }]

\* responses that carry no tool call: a completed text, a truncated one
OrdinaryResponses ==
  { [finish_reason |-> "stop", content |-> "I've noted that.", tool_calls |-> <<>>],
    [finish_reason |-> "length", content |-> "I've no", tool_calls |-> <<>>] }

\* a tool-call response of round r carrying the requests f
ToolCallResponse(r, f) ==
  [finish_reason |-> "tool_calls", content |-> None,
   tool_calls |-> [j \in DOMAIN f |-> ToolCall(r, j, f[j])]]

NoResponse == [finish_reason |-> None, content |-> None, tool_calls |-> <<>>]

\* ---- Me.chat ----
InitialMessages(msg, history) ==
  <<Turn("system", system_prompt)>> \o history \o <<Turn("user", msg)>>

Mut_IsToolRound(resp) == resp.finish_reason # "tool_calls"

IsToolRound(resp) == resp.finish_reason = "tool_calls"

Mut_ExtendMessages(msgs, resp, tool_results) ==
  msgs \o tool_results

ExtendMessages(msgs, resp, tool_results) ==
  Append(msgs, MsgTurn(resp)) \o tool_results

Mut_ApiErrorPc == "awaiting"

\* where the script run goes when completions.create raises
ApiErrorPc == "raised"

\* ---- front end ----
AppendUser(history, text) == Append(history, Turn("user", text))
Mut_AppendReply(history, text) ==
  <<Turn("user", user_message), Turn("assistant", text)>>

AppendReply(history, text) == Append(history, Turn("assistant", text))

Init ==
  /\ PUSHOVER_TOKEN \in CredValues
  /\ PUSHOVER_USER \in CredValues
  /\ chat_history = <<>>
  /\ pc = "idle"
  /\ user_message = None
  /\ messages = <<>>
  /\ response = NoResponse
  /\ results = <<>>
  /\ idx = 1
  /\ reply = NoReply
  /\ err = "none"
  /\ rounds = 0
  /\ turns = 0
  /\ prior = <<>>
  /\ requestLog = <<>>
  /\ responseLog = <<>>
  /\ pushLog = <<>>
  /\ posts = <<>>

\* lines 173-177 and 110-114: a script run with a non-empty user_input, up to
\* the first completions.create call
Submit ==
  /\ pc \in {"idle", "done", "raised"}
  /\ turns < MaxTurns
  /\ \E u \in Utterances :
       /\ user_message' = u
       /\ prior' = chat_history
       /\ chat_history' = AppendUser(chat_history, u)
       /\ messages' = InitialMessages(u, chat_history')
       /\ requestLog' = <<messages'>>
  /\ pc' = "awaiting"
  /\ turns' = turns + 1
  /\ response' = NoResponse
  /\ results' = <<>>
  /\ idx' = 1
  /\ reply' = NoReply
  /\ err' = "none"
  /\ rounds' = 0
  /\ responseLog' = <<>>
  /\ pushLog' = <<>>
  /\ posts' = <<>>
  /\ UNCHANGED <<PUSHOVER_TOKEN, PUSHOVER_USER>>

RECURSIVE CountCalls(_)
CountCalls(log) ==
  IF log = <<>> THEN 0 ELSE Len(log[1].tool_calls) + CountCalls(Tail(log))

\* tool-call requests received so far in this chat call
CallsRequested == CountCalls(responseLog)

Receive(resp) ==
  /\ response' = resp
  /\ responseLog' = Append(responseLog, resp)
  /\ pc' = IF IsToolRound(resp) THEN "tools" ELSE "responded"

\* lines 112-117: the API answers; handle_tool_call starts on a tool round
ApiRespond ==
  /\ pc = "awaiting"
  /\ rounds <= MaxRounds
  /\ \/ \E resp \in OrdinaryResponses : Receive(resp)
     \/ /\ rounds < MaxRounds
        /\ CallsRequested < MaxCalls
        /\ \E f \in RequestLists[MaxCalls - CallsRequested] : Receive(ToolCallResponse(rounds + 1, f))
  /\ results' = <<>>
  /\ idx' = 1
  /\ UNCHANGED <<PUSHOVER_TOKEN, PUSHOVER_USER, chat_history, user_message, messages,
                 reply, err, rounds, turns, prior, requestLog, pushLog, posts>>

\* lines 112-114: completions.create raises; nothing catches it
ApiFail ==
  /\ pc = "awaiting"
  /\ pc' = ApiErrorPc
  /\ err' = "api"
  /\ UNCHANGED <<PUSHOVER_TOKEN, PUSHOVER_USER, chat_history, user_message, messages,
                 response, results, idx, reply, rounds, turns, prior, requestLog,
                 responseLog, pushLog, posts>>

Raise(kind) ==
  /\ pc' = "raised"
  /\ err' = kind
  /\ UNCHANGED <<results, idx>>

\* lines 90-95: one iteration of handle_tool_call's loop
HandleToolCall ==
  /\ pc = "tools"
  /\ idx <= Len(response.tool_calls)
  /\ LET tool_call == response.tool_calls[idx]
         tool == GlobalsGet(tool_call.name)
     IN IF ~tool_call.arguments.valid
        THEN Raise("tool") /\ UNCHANGED <<pushLog, posts>>
        ELSE LET args == json_loads(tool_call.arguments) IN
          IF tool = None
          THEN /\ results' = Append(results, ToolTurn(tool_call, EmptyDict))
               /\ idx' = idx + 1
               /\ UNCHANGED <<pc, err, pushLog, posts>>
          ELSE IF ~Binds(tool, args)
          THEN Raise("tool") /\ UNCHANGED <<pushLog, posts>>
          ELSE LET out == Invoke(tool, args)
                   entries == [k \in DOMAIN out.pushed |->
                                 [round |-> rounds + 1, index |-> idx,
                                  text |-> out.pushed[k],
                                  requests |-> Len(requestLog)]]
                   sent == PushAll(out.pushed)
               IN /\ pushLog' = pushLog \o entries
                  /\ posts' = posts \o sent
                  /\ \/ /\ results' = Append(results, ToolTurn(tool_call, out.result))
                        /\ idx' = idx + 1
                        /\ UNCHANGED <<pc, err>>
                     \/ /\ sent # <<>>       \* requests.post raises
                        /\ Raise("push")
  /\ UNCHANGED <<PUSHOVER_TOKEN, PUSHOVER_USER, chat_history, user_message, messages,
                 response, reply, rounds, turns, prior, requestLog, responseLog>>

\* lines 96, 118-119 and 112-114: the round's turns are appended and the
\* list is sent again
FinishRound ==
  /\ pc = "tools"
  /\ idx > Len(response.tool_calls)
  /\ messages' = ExtendMessages(messages, response, results)
  /\ requestLog' = Append(requestLog, messages')
  /\ rounds' = rounds + 1
  /\ pc' = "awaiting"
  /\ UNCHANGED <<PUSHOVER_TOKEN, PUSHOVER_USER, chat_history, user_message, response,
                 results, idx, reply, err, turns, prior, responseLog, pushLog, posts>>

\* lines 121 and 178-179: chat returns and the front end appends the reply
Return ==
  /\ pc = "responded"
  /\ reply' = response.content
  /\ chat_history' = AppendReply(chat_history, reply')
  /\ pc' = "done"
  /\ UNCHANGED <<PUSHOVER_TOKEN, PUSHOVER_USER, user_message, messages, response,
                 results, idx, err, rounds, turns, prior, requestLog, responseLog,
                 pushLog, posts>>

Next ==
  \/ Submit
  \/ ApiRespond
  \/ ApiFail
  \/ HandleToolCall
  \/ FinishRound
  \/ Return

Spec == Init /\ [][Next]_vars

\* the script run is sequential and nothing suspends it: every step of the
\* program that can be taken is taken; the API may stay silent
ProgramStep == HandleToolCall \/ FinishRound \/ Return
FairSpec == Spec /\ WF_vars(ProgramStep)


\* ---- properties ----
IsPrefix(s, t) == Len(s) <= Len(t) /\ SubSeq(t, 1, Len(s)) = s

Chatting == {"awaiting", "tools", "responded"}

\* the j-th request of the r-th response of this chat call
RequestAt(r, j) == responseLog[r].tool_calls[j]

\* requests whose loop iteration has finished
Positions ==
  { <<r, j>> \in (1..MaxRounds + 1) \X (1..MaxCalls + 1) :
      r <= Len(responseLog) /\ j <= Len(responseLog[r].tool_calls) }
Completed == { p \in Positions : p[1] <= rounds \/ (p[1] = rounds + 1 /\ p[2] < idx) }

\* C1: every request sent after a tool-call round carrying r1..rn is the
\* previous request's list, then that round's model turn, then exactly n tool
\* turns, the j-th of which carries the call id of rj.
C1_ToolResultsPerRound ==
  \A i \in 1..(Len(requestLog) - 1) :
    LET resp == responseLog[i]
        n == Len(resp.tool_calls)
        before == requestLog[i]
        after == requestLog[i + 1]
        base == Len(before)
    IN /\ resp.finish_reason = "tool_calls"
       /\ Len(after) = base + 1 + n
       /\ SubSeq(after, 1, base) = before
       /\ after[base + 1] = MsgTurn(resp)
       /\ \A j \in 1..n : /\ after[base + 1 + j].role = "tool"
                          /\ after[base + 1 + j].tool_call_id = resp.tool_calls[j].id

W_C1 ==
  /\ Len(requestLog) = 2
  /\ Len(responseLog[1].tool_calls) = 2

\* C2: the first request of a turn is one system turn, the history from
\* before the utterance, and one user turn for the utterance.
C2_FirstRequest ==
  requestLog # <<>> =>
    requestLog[1] = <<Turn("system", system_prompt)>> \o prior
                      \o <<Turn("user", user_message)>>

\* C3: when chat has returned after k tool-call responses and one ordinary
\* completion, k+1 requests were sent, each later one extending the one
\* before it by the round's model turn and tool turns, and the reply is the
\* content of the last response.
C3_RoundTrips ==
  pc = "done" =>
    LET k == Cardinality({ i \in DOMAIN responseLog :
                             responseLog[i].finish_reason = "tool_calls" })
    IN /\ Len(responseLog) = k + 1
       /\ \A i \in 1..k : responseLog[i].finish_reason = "tool_calls"
       /\ Len(requestLog) = k + 1
       /\ \A i \in 1..k :
            LET base == Len(requestLog[i]) IN
            /\ Len(requestLog[i + 1]) = base + 1 + Len(responseLog[i].tool_calls)
            /\ SubSeq(requestLog[i + 1], 1, base + 1)
                 = Append(requestLog[i], MsgTurn(responseLog[i]))
            /\ \A j \in (base + 2)..Len(requestLog[i + 1]) :
                 requestLog[i + 1][j].role = "tool"
       /\ reply = responseLog[k + 1].content

W_C3 == pc = "done" /\ Len(requestLog) = 3 /\ prior # <<>>

\* C4: a call of one of the two recording tools never ends the turn with a
\* transport error of push, and every finished call of one of them has the
\* payload {"recorded": "ok"}.
C4_PushErrorIgnored ==
  /\ ~(/\ pc = "raised" /\ err = "push"
       /\ response.tool_calls[idx].name \in FixedTools)
  /\ \A p \in Completed :
       (p[1] = rounds + 1 /\ RequestAt(p[1], p[2]).name \in FixedTools)
         => results[p[2]].content = json_dumps(RecordedOk)

\* C5: a request whose tool name is outside the fixed set gets the payload {},
\* invokes nothing, pushes nothing and raises nothing.
C5_UnknownToolName ==
  /\ \A p \in Completed :
       (p[1] = rounds + 1 /\ RequestAt(p[1], p[2]).name \notin FixedTools)
         => results[p[2]].content = "{}"
  /\ \A i \in DOMAIN pushLog :
       RequestAt(pushLog[i].round, pushLog[i].index).name \in FixedTools
  /\ (pc = "raised" /\ err \in {"tool", "push"})
       => response.tool_calls[idx].name \in FixedTools

\* C6: the session history only grows by appending, chat leaves it alone,
\* after a returned turn it is the prior history, the user turn and the
\* assistant turn with the reply, and it holds no tool-call or tool turn.
C6_History ==
  [][ /\ IsPrefix(chat_history, chat_history')
      /\ pc \in {"awaiting", "tools"} => chat_history' = chat_history
      /\ pc' = "done" =>
           chat_history' = prior' \o <<Turn("user", user_message'),
                                       Turn("assistant", reply')>>
      /\ \A i \in DOMAIN chat_history' :
           /\ chat_history'[i].role \in {"user", "assistant"}
           /\ chat_history'[i].tool_calls = <<>>
           /\ chat_history'[i].tool_call_id = None ]_vars

W_C6 == pc = "done" /\ prior # <<>> /\ rounds = 2 /\ Len(chat_history) = 4

\* C7: when a request to the API fails, the run ends there: no further
\* request is sent, no reply exists, and the history is the prior history
\* plus the user turn.
C7_ApiFailure ==
  [][ (err' = "api" /\ err # "api") =>
        /\ pc' = "raised"
        /\ requestLog' = requestLog
        /\ reply' = NoReply
        /\ chat_history' = Append(prior', Turn("user", user_message')) ]_vars

W_C7 == pc = "raised" /\ err = "api" /\ rounds = 1 /\ prior # <<>>

\* C8: push sends nothing when a credential is missing and one request per
\* invocation, carrying the text, when both are there.
Absent(v) == v = None \/ v = ""

C8_PushRequests ==
  IF Absent(PUSHOVER_TOKEN) \/ Absent(PUSHOVER_USER)
  THEN posts = <<>>
  ELSE /\ Len(posts) = Len(pushLog)
       /\ \A i \in DOMAIN posts : posts[i].message = pushLog[i].text

W_C8 ==
  /\ Len(pushLog) = 2
  /\ posts = <<>>
  /\ PUSHOVER_TOKEN = "secret"
  /\ PUSHOVER_USER = None

\* C9: chat leaves its loop only by returning on a response that is not a
\* tool-call response or by an error; once such a response has been read it
\* returns, and a tool round that is under way ends in the next request or an
\* error.
C9_Loop ==
  /\ [][ (pc \in Chatting /\ pc' \notin Chatting) =>
           \/ pc' = "done" /\ response.finish_reason # "tool_calls"
           \/ pc' = "raised" /\ err' # "none" ]_vars
  /\ [][ rounds' > rounds => response.finish_reason = "tool_calls" ]_vars
  /\ (pc \in {"tools", "responded"} /\ response.finish_reason # "tool_calls")
       ~> (pc = "done")
  /\ (pc = "tools") ~> (pc \in {"awaiting", "raised"})

W_C9 == pc = "done" /\ rounds = MaxRounds

\* C10: the pushes of a turn happen in request order: every finished request
\* of a recording tool has exactly one push, with that request's email or
\* question in the text; no request beyond the one being run has a push; and
\* each push happens before the request to the API that follows its round.
ArgText(req) ==
  IF req.name = "record_user_details"
  THEN json_loads(req.arguments)["email"]
  ELSE json_loads(req.arguments)["question"]

Before(a, b) == a.round < b.round \/ (a.round = b.round /\ a.index < b.index)

====
